---- MODULE Spec2Model ----
(***************************************************************************)
(* Model of the type-generation driver (scripts/generate-types.js) and of  *)
(* the two plugin hosts (src/utils/plugin-manager.ts, used by the driver,  *)
(* and src/plugin-manager.ts).                                             *)
(*                                                                         *)
(* Spec    : runs of main() over a file system and a Python installation   *)
(*           that change between runs.                                     *)
(* SpecPM  : initialize / executeHook / cleanup of both plugin hosts over  *)
(*           bounded lists of plugin definitions.                          *)
(***************************************************************************)
EXTENDS Integers, Sequences, FiniteSets, TLC

VARIABLES
    \* ---- the driver (generate-types.js) ----
    pc,          \* position of main(): idle, setup, check, generate, spawned, write, cache, postgen, failed, final, done
    runs,        \* number of runs started so far
    changedAt,   \* the number of runs that had ended when the environment was changed, -1 while it was not
    change,      \* what that change was ("none" while there was none)
    force,       \* config.forceRegeneration of the current run (--force)
    env,         \* generator script, version_compat.py, stub tree, Python installation
    cache,       \* config.cacheFile
    out,         \* config.outputFile
    temp,        \* config.tempOutputFile of the current run exists
    pmSet,       \* the driver's pluginManager variable is not null
    um,          \* the PluginManager of utils/plugin-manager.ts it refers to; the host under test in SpecPM
    trace,       \* what the current run did, in order
    res,         \* shouldRegenerate, the value generateTypes resolved with, the error it rejected with
    exitCode,    \* exit code of the run (-1 while it has none)
    snap,        \* cache and output file as they were when the current run started
    prev,        \* whether the previous run was forced, and whether it ended with exit code 0 and no failed file operation
    \* ---- the plugin hosts (SpecPM) ----
    pluginDefs,  \* the entries of the plugin configuration file (plugins.json), in file order
    discovered,  \* the plugins directory: whether it can be read, and the definitions auto-discovery builds from its packages, in directory order
    rm,          \* a PluginManager of src/plugin-manager.ts
    lastU,       \* result of the last executeHook of um
    lastR,       \* result of the last executeHook of rm
    lastCleanup, \* what cleanup() of um and of rm did, when cleanup was the last operation on the hosts
    \* ---- a file being written while it is read (SpecIO) ----
    io,          \* the file on disk, the position of fs.writeFileSync in it, what a reader read last (<<>>: nothing yet)
    \* ---- the choice of the Python executable (SpecPy) ----
    py,          \* a Python installation and what findBestPythonExecutable returned for it
    \* ---- overlapping calls on one PluginManager of utils/plugin-manager.ts (SpecAsync) ----
    tasks,       \* the calls in progress, each with its position, and how often each definition's plugin was initialized
    \* ---- overlapping calls on one FeatureToolsBridge (SpecBridge) ----
    bridge       \* the bridge, the pipes of its Python process, the calls and what they settled with

vars == <<pc, runs, changedAt, change, force, env, cache, out, temp, pmSet, um, trace, res, exitCode,
          snap, prev, pluginDefs, discovered, rm, lastU, lastR, lastCleanup, io, py, tasks, bridge>>

driverVars == <<pc, runs, changedAt, change, force, env, cache, out, temp, trace, res, exitCode, snap, prev>>

auxVars == <<io, py, tasks, bridge>>

\* ---------------------------------------------------------------- bounds
MaxRuns == 2
MaxDefs == 3
MaxChunks == 2
MaxCands == 2
MaxTasks == 2
MaxCalls == 2

\* ---------------------------------------------------------------- plugin definitions
DefaultPriority == 100

PluginNames == {"A", "B"}

\* module "bad" cannot be required or exports no plugin; "good" exports one
Modules == {"good", "bad"}

\* a definition may lack the optional priority field (types/config.ts:153-175)
\* (the module of a disabled definition is never loaded: it is "good" here; the priority of
\* a definition that is disabled or cannot be loaded is never read: it is left out here)
Definitions ==
    { d \in [name : PluginNames, enabled : BOOLEAN, module : Modules, priority : {50}]
             \cup [name : PluginNames, enabled : BOOLEAN, module : Modules] :
        /\ d.enabled \/ d.module = "good"
        /\ (d.enabled /\ d.module = "good") \/ "priority" \notin DOMAIN d }

\* the module path of a plugin found in the plugins directory: it can be loaded
DiscoveredModule == "pluginsDir"

\* the definition auto-discovery builds from a package.json: enabled: true, priority: 100
Discovered(name) ==
    [name |-> name, enabled |-> TRUE, module |-> DiscoveredModule, priority |-> DefaultPriority]

\* the plugin packages of the plugins directory, in directory order
DiscoveredLists ==
    {<<>>} \cup {<<Discovered(n)>> : n \in PluginNames}
           \cup {<<Discovered(pair[1]), Discovered(pair[2])>> :
                    pair \in {q \in PluginNames \X PluginNames : q[1] # q[2]}}

\* the states of the plugins directory; of one that cannot be read nothing else is known
PluginDirs ==
    {[readable |-> TRUE, packages |-> l] : l \in DiscoveredLists}
        \cup {[readable |-> FALSE, packages |-> <<>>]}

\* the number of entries a plugins directory adds to the definitions (an unreadable one
\* counts as one)
DirSize(dir) == IF dir.readable THEN Len(dir.packages) ELSE 1

\* a.priority ?? 100
Priority(d) == IF "priority" \in DOMAIN d THEN d.priority ELSE DefaultPriority

\* ---------------------------------------------------------------- contexts and plugins' answers
Undefined ==
    [kind |-> "undefined", hasMeta |-> FALSE, force |-> FALSE, tsOutput |-> "undef",
     pluginData |-> FALSE, entry |-> FALSE]

\* an object literal { config, tsOutput, metadata: {...} } as the driver writes it: it has no
\* pluginData property, and its metadata holds no entry of a plugin
Context(hasMeta, frc, ts) ==
    [kind |-> "object", hasMeta |-> hasMeta, force |-> frc, tsOutput |-> ts,
     pluginData |-> FALSE, entry |-> FALSE]

\* if (result) ...
Truthy(c) == c.kind # "undefined"

\* What a plugin's onHook may do with the context it is given:
\*   same   returns the context it received
\*   undef  returns undefined
\*   throw  throws, or returns a promise that rejects
\*   force  sets metadata.forceRegeneration and returns the context
\*   nometa returns a fresh object that has no metadata
\*   store  stores an entry of its own in metadata and returns the context
\*   empty  sets tsOutput to the empty string and returns the context
Behaviours == {"same", "undef", "throw", "force", "nometa"}

OnHook(beh, ctx) ==
    CASE beh = "same"   -> [threw |-> FALSE, value |-> ctx]
      [] beh = "undef"  -> [threw |-> FALSE, value |-> Undefined]
      [] beh = "throw"  -> [threw |-> TRUE, value |-> Undefined]
      [] beh = "force"  -> IF ctx.kind = "object" /\ ctx.hasMeta
                             THEN [threw |-> FALSE, value |-> [ctx EXCEPT !.force = TRUE]]
                             ELSE [threw |-> TRUE, value |-> Undefined]
      [] beh = "nometa" -> [threw |-> FALSE, value |-> Context(FALSE, FALSE, "undef")]
      [] beh = "store"  -> IF ctx.kind = "object" /\ ctx.hasMeta
                             THEN [threw |-> FALSE, value |-> [ctx EXCEPT !.entry = TRUE]]
                             ELSE [threw |-> TRUE, value |-> Undefined]
      [] beh = "empty"  -> IF ctx.kind = "object"
                             THEN [threw |-> FALSE, value |-> [ctx EXCEPT !.tsOutput = ""]]
                             ELSE [threw |-> TRUE, value |-> Undefined]

\* ---------------------------------------------------------------- Map<string, T> (insertion ordered)
MapKeys(m) == {m[i].key : i \in 1..Len(m)}

MapHas(m, k) == k \in MapKeys(m)

MapGet(m, k) == m[CHOOSE i \in 1..Len(m) : m[i].key = k].val

\* Map.prototype.set: an existing key keeps its position
MapSet(m, k, v) ==
    IF MapHas(m, k)
      THEN [i \in 1..Len(m) |-> IF m[i].key = k THEN [key |-> k, val |-> v] ELSE m[i]]
      ELSE Append(m, [key |-> k, val |-> v])

\* Array.prototype.sort is stable: insertion of s[n] after every element that is not greater
RECURSIVE SortBy(_, _)
SortBy(s, n) ==
    IF n = 0 THEN <<>>
    ELSE LET done == SortBy(s, n - 1)
             x == s[n]
             k == Cardinality({i \in 1..Len(done) : Priority(done[i]) <= Priority(x)})
         IN SubSeq(done, 1, k) \o <<x>> \o SubSeq(done, k + 1, Len(done))

SortByPriority(s) == SortBy(s, Len(s))

\* ---------------------------------------------------------------- setupPlugins: the definitions
\* pluginDefs after the first n discovered packages: a package is pushed unless pluginDefs
\* already holds a definition of that name
RECURSIVE PushDiscovered(_, _, _)
PushDiscovered(defs, disc, n) ==
    IF n = 0 THEN defs
    ELSE LET acc == PushDiscovered(defs, disc, n - 1)
             existingPlugin == \E i \in 1..Len(acc) : acc[i].name = disc[n].name
         IN IF ~existingPlugin THEN Append(acc, disc[n]) ELSE acc

\* the pluginDefs setupPlugins gives to new PluginManager(pluginDefs); fs.readdirSync of a
\* plugins directory that cannot be read throws, the catch of setupPlugins logs it and no
\* manager is created, as with an empty pluginDefs
setupPluginDefs(config, dir) ==
    IF ~dir.readable THEN <<>>
    ELSE PushDiscovered(config, dir.packages, Len(dir.packages))

\* ---------------------------------------------------------------- utils/plugin-manager.ts
NewManagerU(defs) ==
    [pluginDefs |-> defs, plugins |-> <<>>, pluginConfigs |-> <<>>, initialized |-> FALSE]

\* loadPlugin: require(module) and plugin.initialize(def); throws for a module that cannot be loaded
LoadsU(def) == def.module # "bad"

\* the for loop of initialize over the first n sorted definitions
RECURSIVE LoadAllU(_, _, _)
LoadAllU(m, sorted, n) ==
    IF n = 0 THEN m
    ELSE LET before == LoadAllU(m, sorted, n - 1)
             def == sorted[n]
         IN IF def.enabled = FALSE THEN before
            ELSE IF ~LoadsU(def) THEN before
            ELSE [before EXCEPT !.plugins = MapSet(@, def.name, def),
                                !.pluginConfigs = MapSet(@, def.name, def)]

initializeU(m) ==
    IF m.initialized THEN m
    ELSE LET sortedPlugins == SortByPriority(m.pluginDefs)
         IN [LoadAllU(m, sortedPlugins, Len(sortedPlugins)) EXCEPT !.initialized = TRUE]

\* the loop body without its try/catch: the exception of onHook leaves the loop
HandlePluginU_NoCatch(acc, entry, hook, beh) ==
    LET r == OnHook(beh, acc.ctx)
        call == [name |-> entry.key, priority |-> Priority(entry.val), hook |-> hook,
                 beh |-> beh, given |-> acc.ctx]
    IN [status |-> IF r.threw THEN "rejected" ELSE "resolved",
        ctx |-> IF ~r.threw /\ Truthy(r.value) THEN r.value ELSE acc.ctx,
        calls |-> Append(acc.calls, call)]

\* the body of the for loop of executeHook: try { result = await onHook(); if (result) ... } catch { log }
\* acc is the loop's state: the working context, the invocations made, and whether an
\* exception has left the loop (the promise of executeHook then rejects).
HandlePluginU(acc, entry, hook, beh) ==
    LET r == OnHook(beh, acc.ctx)
        call == [name |-> entry.key, priority |-> Priority(entry.val), hook |-> hook,
                 beh |-> beh, given |-> acc.ctx]
    IN [status |-> "resolved",
        ctx |-> IF ~r.threw /\ Truthy(r.value) THEN r.value ELSE acc.ctx,
        calls |-> Append(acc.calls, call)]

RECURSIVE HookLoopU(_, _, _, _, _)
HookLoopU(entries, n, hook, behs, ctx) ==
    IF n = 0 THEN [status |-> "resolved", ctx |-> ctx, calls |-> <<>>]
    ELSE LET acc == HookLoopU(entries, n - 1, hook, behs, ctx)
         IN IF acc.status = "rejected" THEN acc
            ELSE HandlePluginU(acc, entries[n], hook, behs[entries[n].key])

\* executeHook(hook, context) with behs[name] what the plugin called name does now
executeHookU(m, hook, ctx, behs) ==
    LET m1 == IF ~m.initialized THEN initializeU(m) ELSE m
    IN [mgr |-> m1] @@ HookLoopU(m1.plugins, Len(m1.plugins), hook, behs, ctx)

\* what a plugin's cleanup may do: return, or throw (or return a promise that rejects)
CleanupBehaviours == [PluginNames -> {"same", "throw"}]

\* the body of the for loop of cleanup: try { await Promise.resolve(plugin.cleanup()) } catch { log }
HandleCleanupU(acc, entry, beh) ==
    [status |-> "resolved", calls |-> Append(acc.calls, [name |-> entry.key, beh |-> beh])]

RECURSIVE CleanupLoopU(_, _, _)
CleanupLoopU(entries, n, behs) ==
    IF n = 0 THEN [status |-> "resolved", calls |-> <<>>]
    ELSE LET acc == CleanupLoopU(entries, n - 1, behs)
         IN IF acc.status = "rejected" THEN acc
            ELSE HandleCleanupU(acc, entries[n], behs[entries[n].key])

\* the cleanup calls cleanup() makes and how its promise settles
cleanupCallsU(m, behs) ==
    CleanupLoopU(m.plugins, Len(m.plugins), behs) @@ [loaded |-> MapKeys(m.plugins)]

\* cleanup(): every plugin's cleanup inside try/catch, then the registries are emptied
cleanupU(m) ==
    [m EXCEPT !.plugins = <<>>, !.pluginConfigs = <<>>, !.initialized = FALSE]

\* ---------------------------------------------------------------- src/plugin-manager.ts
NewManagerR ==
    [plugins |-> <<>>, pluginConfigs |-> <<>>, initialized |-> FALSE, pluginsEnabled |-> TRUE]

\* loadPlugin(config); threw tells whether it rethrows (the caller logs and goes on)
loadPluginR(m, config) ==
    IF config.enabled = FALSE
      THEN [m EXCEPT !.pluginConfigs = MapSet(@, config.name, config)]
    ELSE IF config.module = "bad" THEN m
    ELSE [m EXCEPT !.plugins = MapSet(@, config.name, config),
                   !.pluginConfigs = MapSet(@, config.name, config)]

\* loadPluginsFromConfig: the entries of the configuration file in file order
RECURSIVE loadPluginsFromConfig(_, _, _)
loadPluginsFromConfig(m, defs, n) ==
    IF n = 0 THEN m ELSE loadPluginR(loadPluginsFromConfig(m, defs, n - 1), defs[n])

\* loadPluginsFromDirectory: a package is skipped when pluginConfigs has its name
RECURSIVE loadPluginsFromDirectory(_, _, _)
loadPluginsFromDirectory(m, disc, n) ==
    IF n = 0 THEN m
    ELSE LET before == loadPluginsFromDirectory(m, disc, n - 1)
         IN IF MapHas(before.pluginConfigs, disc[n].name) THEN before
            ELSE loadPluginR(before, disc[n])

\* initialize(): fs.readdirSync of a plugins directory that cannot be read throws out of
\* loadPluginsFromDirectory; initialize logs and rethrows, initialized stays false
initializeR(m, defs, dir) ==
    IF m.initialized \/ ~m.pluginsEnabled THEN m
    ELSE IF ~dir.readable THEN loadPluginsFromConfig(m, defs, Len(defs))
    ELSE [loadPluginsFromDirectory(loadPluginsFromConfig(m, defs, Len(defs)),
                                   dir.packages, Len(dir.packages))
            EXCEPT !.initialized = TRUE]

\* the registered plugins whose configuration is not disabled, sorted by its priority
SortedPluginsR(m) ==
    LET configs == [i \in 1..Len(m.plugins) |->
                      IF MapHas(m.pluginConfigs, m.plugins[i].key)
                        THEN MapGet(m.pluginConfigs, m.plugins[i].key)
                        ELSE [name |-> m.plugins[i].key, enabled |-> TRUE, module |-> "",
                              priority |-> DefaultPriority]]
    IN SortByPriority(SelectSeq(configs, LAMBDA c : c.enabled # FALSE))

\* try { currentContext = await plugin.onHook(hook, currentContext) } catch { log }
HandlePluginR(acc, config, hook, beh) ==
    LET r == OnHook(beh, acc.ctx)
        call == [name |-> config.name, priority |-> Priority(config), hook |-> hook,
                 beh |-> beh, given |-> acc.ctx]
    IN [status |-> "resolved",
        ctx |-> IF ~r.threw THEN r.value ELSE acc.ctx,
        calls |-> Append(acc.calls, call)]

RECURSIVE HookLoopR(_, _, _, _, _)
HookLoopR(sorted, n, hook, behs, ctx) ==
    IF n = 0 THEN [status |-> "resolved", ctx |-> ctx, calls |-> <<>>]
    ELSE LET acc == HookLoopR(sorted, n - 1, hook, behs, ctx)
         IN IF acc.status = "rejected" THEN acc
            ELSE HandlePluginR(acc, sorted[n], hook, behs[sorted[n].name])

executeHookR(m, hook, ctx, behs) ==
    IF ~m.initialized \/ ~m.pluginsEnabled
      THEN [status |-> "resolved", ctx |-> ctx, calls |-> <<>>]
      ELSE LET sortedPlugins == SortedPluginsR(m)
           IN HookLoopR(sortedPlugins, Len(sortedPlugins), hook, behs, ctx)

\* the body of the for loop of cleanup: try { plugin.cleanup() } catch { log }
HandleCleanupR(acc, entry, beh) ==
    [status |-> "resolved", calls |-> Append(acc.calls, [name |-> entry.key, beh |-> beh])]

RECURSIVE CleanupLoopR(_, _, _)
CleanupLoopR(entries, n, behs) ==
    IF n = 0 THEN [status |-> "resolved", calls |-> <<>>]
    ELSE LET acc == CleanupLoopR(entries, n - 1, behs)
         IN IF acc.status = "rejected" THEN acc
            ELSE HandleCleanupR(acc, entries[n], behs[entries[n].key])

\* the cleanup calls cleanup() makes: none when the host is not initialized
cleanupCallsR(m, behs) ==
    (IF ~m.initialized \/ ~m.pluginsEnabled
       THEN [status |-> "resolved", calls |-> <<>>]
       ELSE CleanupLoopR(m.plugins, Len(m.plugins), behs))
    @@ [loaded |-> MapKeys(m.plugins)]

cleanupR(m) ==
    IF ~m.initialized \/ ~m.pluginsEnabled THEN m
    ELSE [m EXCEPT !.plugins = <<>>, !.pluginConfigs = <<>>, !.initialized = FALSE]

\* ---------------------------------------------------------------- hashes, versions, time
EmptyString == <<>>

\* crypto.createHash('md5').update(x).digest('hex'): never the empty string, equal for equal inputs
Md5(x) == <<"md5", x>>

\* a version is <<major, minor>>; null when the executable cannot report one
Null == <<>>

PythonMinVersion == <<3, 6>>
PythonMaxVersion == <<3, 11>>
PythonPreferredVersion == <<3, 8>>

\* the isSupported expression of checkPythonVersion and findBestPythonExecutable
IsSupported(v) ==
    /\ (v[1] > PythonMinVersion[1] \/ (v[1] = PythonMinVersion[1] /\ v[2] >= PythonMinVersion[2]))
    /\ (v[1] < PythonMaxVersion[1] \/ (v[1] = PythonMaxVersion[1] /\ v[2] <= PythonMaxVersion[2]))

\* checkPythonVersion(): the version of config.pythonExecutable, or null
checkPythonVersion(python) == python.cfg

Abs(x) == IF x < 0 THEN -x ELSE x

MajorWeight == 100

Distance(v) ==
    Abs(v[1] - PythonPreferredVersion[1]) * MajorWeight + Abs(v[2] - PythonPreferredVersion[2])

\* findBestPythonExecutable() returning the first supported candidate, the sort by distance
\* left out
findBestPythonExecutable_FirstCandidate(python) ==
    LET currentVersion == checkPythonVersion(python)
        possibleVersions == SelectSeq(python.cands, IsSupported)
    IN IF currentVersion # Null /\ IsSupported(currentVersion)
         THEN [executable |-> "configured", version |-> currentVersion]
       ELSE IF Len(possibleVersions) = 0
         THEN [executable |-> "configured", version |-> currentVersion]
       ELSE [executable |-> "discovered", version |-> possibleVersions[1]]

\* findBestPythonExecutable(): python.cands are the versions of the candidates that `which` finds,
\* in candidate order; the stable sort by distance puts first the earliest closest one
findBestPythonExecutable(python) ==
    LET currentVersion == checkPythonVersion(python)
        possibleVersions == SelectSeq(python.cands, IsSupported)
    IN IF currentVersion # Null /\ IsSupported(currentVersion)
         THEN [executable |-> "configured", version |-> currentVersion]
       ELSE IF Len(possibleVersions) = 0
         THEN [executable |-> "configured", version |-> currentVersion]
       ELSE LET best == CHOOSE i \in 1..Len(possibleVersions) :
                          /\ \A j \in 1..Len(possibleVersions) :
                               Distance(possibleVersions[i]) <= Distance(possibleVersions[j])
                          /\ \A j \in 1..(i - 1) :
                               Distance(possibleVersions[j]) > Distance(possibleVersions[i])
            IN [executable |-> "discovered", version |-> possibleVersions[best]]

\* Time is logical: run k happens at time 2k, a change made after k runs at time 2k + 1.
RunTime(k) == 2 * k

ChangeTime(k) == 2 * k + 1

\* ---------------------------------------------------------------- stub files
StubSampleThreshold == 100
StubSampleSize == 5

\* One stub directory (scripts/../stubs) whose entries are read in the order a.pyi, sub/, z.pyi;
\* sub/ holds b.pyi. A file's value is its mtime, 0 when it does not exist.
StubEntry(path, mtime) == IF mtime = 0 THEN <<>> ELSE <<[path |-> path, mtime |-> mtime]>>

findStubDirectories(stubs) == IF stubs.dir THEN <<"stubs">> ELSE <<>>

\* needsRegeneration (432-451): one try around the walk of a whole directory, so an unreadable
\* subdirectory ends the walk of that directory and keeps what was found before it
StubFilesCheck(stubs) ==
    IF Len(findStubDirectories(stubs)) = 0 THEN <<>>
    ELSE StubEntry("a.pyi", stubs.a)
           \o (IF stubs.unreadable THEN <<>>
               ELSE StubEntry("sub/b.pyi", stubs.b) \o StubEntry("z.pyi", stubs.z))

\* updateCache (735-754): the try is inside findStubFiles, so only the unreadable
\* subdirectory is skipped
StubFilesUpdate(stubs) ==
    IF Len(findStubDirectories(stubs)) = 0 THEN <<>>
    ELSE StubEntry("a.pyi", stubs.a)
           \o (IF stubs.unreadable THEN <<>> ELSE StubEntry("sub/b.pyi", stubs.b))
           \o StubEntry("z.pyi", stubs.z)

\* stubFiles.length > 100 ? first 5 and last 5 : all
SamplesToCheck(stubFiles) ==
    IF Len(stubFiles) > StubSampleThreshold
      THEN SubSeq(stubFiles, 1, StubSampleSize)
             \o SubSeq(stubFiles, Len(stubFiles) - StubSampleSize + 1, Len(stubFiles))
      ELSE stubFiles

\* md5 of the `${file}:${mtime}` strings joined by '|'
StubsHash(stubFiles) == Md5(SamplesToCheck(stubFiles))

\* ---------------------------------------------------------------- the cache file
NoCache ==
    [state |-> "none", lastGenerated |-> 0, scriptHash |-> EmptyString,
     versionCompatHash |-> EmptyString, stubFilesHash |-> EmptyString, pythonVersion |-> Null]

CorruptCache == [NoCache EXCEPT !.state = "corrupt"]

\* the cacheData object of updateCache (712-781), written at time now
CacheData(e, pythonVersion, now) ==
    [state |-> "ok",
     lastGenerated |-> now,
     scriptHash |-> Md5(e.script.content),
     versionCompatHash |-> IF e.vc.exists THEN Md5(e.vc.content) ELSE EmptyString,
     stubFilesHash |-> IF Len(findStubDirectories(e.stubs)) > 0 /\ Len(StubFilesUpdate(e.stubs)) > 0
                         THEN StubsHash(StubFilesUpdate(e.stubs)) ELSE EmptyString,
     pythonVersion |-> pythonVersion]

\* the checks of needsRegeneration with an unparsable cache file taken for a record that
\* passes every check (the catch returning false)
CacheChecks_CorruptPasses(e, c, o) ==
    IF c.state = "none" THEN "no-cache"
    ELSE IF c.state = "corrupt" THEN "hook"
    ELSE IF c.lastGenerated < e.script.mtime THEN "script-mtime"
    ELSE IF e.vc.exists /\ c.lastGenerated < e.vc.mtime THEN "compat-mtime"
    ELSE IF /\ c.pythonVersion # Null
            /\ checkPythonVersion(e.python) # Null
            /\ checkPythonVersion(e.python) # c.pythonVersion THEN "python"
    ELSE IF ~o.exists THEN "no-output"
    ELSE IF c.stubFilesHash = EmptyString THEN "no-stub-hash"
    ELSE IF /\ Len(StubFilesCheck(e.stubs)) > 0
            /\ c.stubFilesHash # StubsHash(StubFilesCheck(e.stubs)) THEN "stubs"
    ELSE IF c.scriptHash # Md5(e.script.content) THEN "script-hash"
    ELSE IF e.vc.exists /\ c.versionCompatHash # Md5(e.vc.content) THEN "compat-hash"
    ELSE "hook"

\* the checks of needsRegeneration without the comparison of the script's content hash
CacheChecks_NoScriptHash(e, c, o) ==
    IF c.state = "none" THEN "no-cache"
    ELSE IF c.state = "corrupt" THEN "error"
    ELSE IF c.lastGenerated < e.script.mtime THEN "script-mtime"
    ELSE IF e.vc.exists /\ c.lastGenerated < e.vc.mtime THEN "compat-mtime"
    ELSE IF /\ c.pythonVersion # Null
            /\ checkPythonVersion(e.python) # Null
            /\ checkPythonVersion(e.python) # c.pythonVersion THEN "python"
    ELSE IF ~o.exists THEN "no-output"
    ELSE IF c.stubFilesHash = EmptyString THEN "no-stub-hash"
    ELSE IF /\ Len(StubFilesCheck(e.stubs)) > 0
            /\ c.stubFilesHash # StubsHash(StubFilesCheck(e.stubs)) THEN "stubs"
    ELSE IF e.vc.exists /\ c.versionCompatHash # Md5(e.vc.content) THEN "compat-hash"
    ELSE "hook"

\* needsRegeneration (372-500) after the force check and before the plugin hook: the reason
\* for which it returns true, or "hook" when every check passed
CacheChecks(e, c, o) ==
    IF c.state = "none" THEN "no-cache"
    ELSE IF c.state = "corrupt" THEN "error"
    ELSE IF c.lastGenerated < e.script.mtime THEN "script-mtime"
    ELSE IF e.vc.exists /\ c.lastGenerated < e.vc.mtime THEN "compat-mtime"
    ELSE IF /\ c.pythonVersion # Null
            /\ checkPythonVersion(e.python) # Null
            /\ checkPythonVersion(e.python) # c.pythonVersion THEN "python"
    ELSE IF ~o.exists THEN "no-output"
    ELSE IF c.stubFilesHash = EmptyString THEN "no-stub-hash"
    ELSE IF /\ Len(StubFilesCheck(e.stubs)) > 0
            /\ c.stubFilesHash # StubsHash(StubFilesCheck(e.stubs)) THEN "stubs"
    ELSE IF c.scriptHash # Md5(e.script.content) THEN "script-hash"
    ELSE IF e.vc.exists /\ c.versionCompatHash # Md5(e.vc.content) THEN "compat-hash"
    ELSE "hook"

\* if (pluginContext.metadata.forceRegeneration) return true; a context without metadata
\* makes the expression throw, and the catch returns true
AfterPreGeneration(pluginContext) ==
    IF ~pluginContext.hasMeta THEN "error"
    ELSE IF pluginContext.force THEN "plugin"
    ELSE "none"

\* ---------------------------------------------------------------- executePluginHook
Hooks == {"PRE_GENERATION", "PRE_CONVERSION", "POST_CONVERSION", "POST_GENERATION", "ON_ERROR"}

AllBehaviours == [PluginNames -> Behaviours]

\* executePluginHook(hook, context): the context as is without a plugin manager or when
\* executeHook rejects, else what executeHook resolves with
executePluginHook(present, m, hook, context, behs) ==
    IF ~present THEN context
    ELSE LET result == executeHookU(m, hook, context, behs)
         IN IF result.status = "rejected" THEN context ELSE result.ctx

\* ---------------------------------------------------------------- the driver's state
\* the context objects main and generateTypes build
PreGenerationContext == Context(TRUE, FALSE, "undef")
PreConversionContext == Context(TRUE, FALSE, "undef")
PostConversionContext(output) == Context(TRUE, FALSE, output)
PostGenerationContext(output) == Context(TRUE, FALSE, output)
ErrorContext == Context(TRUE, FALSE, "undef")

NoError == [kind |-> "none", code |-> 0, text |-> ""]

NoRes ==
    [regen |-> FALSE, reason |-> "", output |-> "undef", pythonVersion |-> Null,
     errorData |-> "", err |-> NoError]

\* no file is being written
NoIO == [path |-> "", old |-> <<>>, new |-> <<>>, file |-> <<>>, wpc |-> "none", seen |-> <<>>]

\* cleanup was not the last operation on the hosts
NoCleanup == [done |-> FALSE]

\* no executable is being chosen
NoPy == [python |-> [cfg |-> Null, cands |-> <<>>], result |-> <<>>]

\* no call is in progress on the host
NoTasks == [calls |-> <<>>, inits |-> <<>>]

\* no bridge exists
NoBridge == [initialized |-> FALSE, stdin |-> <<>>, stdout |-> <<>>, listeners |-> <<>>, calls |-> <<>>]

NoHookResult == [status |-> "none", ctx |-> Undefined, calls |-> <<>>, loaded |-> {}]

\* what setupPlugins may find: nothing, or an entry of plugins.json and a package of the
\* plugins directory
DriverPluginSetups ==
    { [config |-> <<>>, discovered |-> [readable |-> TRUE, packages |-> <<>>]],
      [config |-> <<[name |-> "B", enabled |-> TRUE, module |-> "good", priority |-> 50]>>,
       discovered |-> [readable |-> TRUE, packages |-> <<Discovered("A")>>]] }

PythonEnvs ==
    { [cfg |-> <<3, 8>>, cands |-> <<>>],
      [cfg |-> <<3, 12>>, cands |-> << <<3, 9>> >>],
      [cfg |-> Null, cands |-> <<>>] }

InitialStubs ==
    { [dir |-> TRUE, a |-> 1, b |-> 0, z |-> 0, unreadable |-> FALSE],
      [dir |-> TRUE, a |-> 0, b |-> 0, z |-> 0, unreadable |-> FALSE],
      [dir |-> TRUE, a |-> 1, b |-> 1, z |-> 1, unreadable |-> TRUE],
      [dir |-> FALSE, a |-> 0, b |-> 0, z |-> 0, unreadable |-> FALSE] }

Now == RunTime(runs)

Log(events) == trace \o events

Init ==
    /\ pc = "idle"
    /\ runs = 0
    /\ changedAt = -1
    /\ change = "none"
    /\ force = FALSE
    /\ env \in [script : {[content |-> 1, mtime |-> 1]},
                vc : {[exists |-> TRUE, content |-> 1, mtime |-> 1]},
                stubs : InitialStubs,
                python : PythonEnvs]
    /\ cache = NoCache
    /\ out = [exists |-> FALSE, text |-> "", mtime |-> 0]
    /\ temp = FALSE
    /\ pmSet = FALSE
    /\ \E setup \in DriverPluginSetups :
         pluginDefs = setup.config /\ discovered = setup.discovered
    /\ um = NewManagerU(setupPluginDefs(pluginDefs, discovered))
    /\ trace = <<>>
    /\ res = NoRes
    /\ exitCode = -1
    /\ snap = [cache |-> cache, out |-> out]
    /\ prev = [succeeded |-> FALSE, force |-> FALSE]
    /\ rm = NewManagerR
    /\ lastU = NoHookResult
    /\ lastR = NoHookResult
    /\ lastCleanup = NoCleanup
    /\ io = NoIO
    /\ py = NoPy /\ tasks = NoTasks /\ bridge = NoBridge

pmVars == <<pluginDefs, discovered, rm, lastU, lastR, lastCleanup>>

\* ---------------------------------------------------------------- changes between runs
\* The file system and the Python installation change only while no run is in progress.
\* A behaviour starts in one of several environments and holds one change, made after a
\* run and before another.
CanChange == pc = "done" /\ changedAt = -1 /\ runs < MaxRuns

Faults == {"openTempFail", "readTempFail", "writeOutputFail", "updateCacheFail"}

Faulted(t) == \E i \in 1..Len(t) : t[i] \in Faults

\* The process of the last run has ended: what is left of it is whether it succeeded and
\* whether it was forced; no run is in progress (position idle).
Change(kind, e, c, o) ==
    /\ CanChange
    /\ env' = e /\ cache' = c /\ out' = o
    /\ changedAt' = runs
    /\ change' = kind
    /\ prev' = [succeeded |-> (exitCode = 0 /\ ~Faulted(trace)), force |-> force]
    /\ pc' = "idle"
    /\ force' = FALSE
    /\ temp' = FALSE
    /\ pmSet' = FALSE
    /\ um' = NewManagerU(setupPluginDefs(pluginDefs, discovered))
    /\ trace' = <<>>
    /\ res' = NoRes
    /\ exitCode' = -1
    /\ snap' = [cache |-> c, out |-> o]
    /\ UNCHANGED runs
    /\ UNCHANGED <<pmVars, auxVars>>

\* the generator script is edited; a backdated edit keeps the old modification time
EditScript ==
    \E backdated \in BOOLEAN :
        Change("editScript", [env EXCEPT !.script = [content |-> 3 - @.content,
                                       mtime |-> IF backdated THEN @.mtime ELSE ChangeTime(runs)]],
               cache, out)

EditCompat ==
    /\ env.vc.exists
    /\ Change("editCompat", [env EXCEPT !.vc = [exists |-> TRUE, content |-> 3 - @.content,
                                  mtime |-> ChangeTime(runs)]], cache, out)

RemoveCompat ==
    /\ env.vc.exists
    /\ Change("removeCompat", [env EXCEPT !.vc.exists = FALSE], cache, out)

RemoveOutput ==
    /\ out.exists
    /\ Change("removeOutput", env, cache, [out EXCEPT !.exists = FALSE])

DamageCache ==
    /\ cache.state = "ok"
    /\ \E c \in {NoCache, CorruptCache} : Change("damageCache", env, c, out)

\* a .pyi file is added or touched
TouchStub ==
    /\ env.stubs.dir
    /\ \E f \in {"a", "b", "z"} :
         Change(IF env.stubs[f] = 0 THEN "addStub" ELSE "touchStub",
                [env EXCEPT !.stubs[f] = ChangeTime(runs)], cache, out)

RemoveStub ==
    /\ env.stubs.dir
    /\ \E f \in {"a", "b", "z"} :
         /\ env.stubs[f] # 0
         /\ Change("removeStub", [env EXCEPT !.stubs[f] = 0], cache, out)

\* the subdirectory of the stub directory loses or regains its read permission
ChmodStubDir ==
    /\ env.stubs.dir
    /\ Change("chmodStubDir", [env EXCEPT !.stubs.unreadable = ~@], cache, out)

ChangePython ==
    \E p \in PythonEnvs \ {env.python} : Change("changePython", [env EXCEPT !.python = p], cache, out)

\* ---------------------------------------------------------------- a run of main()
SameBehaviours == [n \in PluginNames |-> "same"]

\* what the loaded plugins may do at one hook execution
BehaviourChoices(present) == IF present THEN AllBehaviours ELSE {SameBehaviours}

\* one plugin does beh, the others return the context they received
OnePlugin(beh) == {[n \in PluginNames |-> IF n = p THEN beh ELSE "same"] : p \in PluginNames}

\* at PRE_GENERATION a plugin may also store an entry, at POST_CONVERSION empty the text
BehaviourChoicesAt(hook, present) ==
    IF ~present THEN {SameBehaviours}
    ELSE AllBehaviours \cup (CASE hook = "PRE_GENERATION" -> OnePlugin("store")
                               [] hook = "POST_CONVERSION" -> OnePlugin("empty")
                               [] OTHER -> {})

\* node scripts/generate-types.js [--force]: a new process, a new temporary file name
StartRun ==
    /\ pc \in {"idle", "done"}
    /\ runs < MaxRuns
    /\ \E f \in BOOLEAN : force' = f
    /\ runs' = runs + 1
    /\ prev' = IF pc = "idle" THEN prev
               ELSE [succeeded |-> (exitCode = 0 /\ ~Faulted(trace)), force |-> force]
    /\ snap' = [cache |-> cache, out |-> out]
    /\ trace' = <<>>
    /\ res' = NoRes
    /\ exitCode' = -1
    /\ temp' = FALSE
    /\ pmSet' = FALSE
    /\ um' = NewManagerU(setupPluginDefs(pluginDefs, discovered))
    /\ pc' = "setup"
    /\ UNCHANGED <<changedAt, change, env, cache, out>>
    /\ UNCHANGED <<pmVars, auxVars>>

\* setupPlugins(): a manager is created and initialized when there is a definition
SetupPlugins ==
    /\ pc = "setup"
    /\ IF Len(setupPluginDefs(pluginDefs, discovered)) > 0
         THEN pmSet' = TRUE /\ um' = initializeU(NewManagerU(setupPluginDefs(pluginDefs, discovered)))
         ELSE UNCHANGED <<pmSet, um>>
    /\ pc' = "check"
    /\ UNCHANGED <<runs, changedAt, change, force, env, cache, out, temp, trace, res, exitCode, snap, prev>>
    /\ UNCHANGED <<pmVars, auxVars>>

\* needsRegeneration() asking the plugins before the cache checks and returning what their
\* answer says
NeedsRegenerationReason_PluginFirst(frc, e, c, o, pluginContext) ==
    IF frc THEN "force"
    ELSE IF AfterPreGeneration(pluginContext) = "none" THEN "none"
    ELSE CacheChecks(e, c, o)

\* needsRegeneration(): the reason for regenerating, "none" when it returns false
NeedsRegenerationReason(frc, e, c, o, pluginContext) ==
    IF frc THEN "force"
    ELSE IF CacheChecks(e, c, o) # "hook" THEN CacheChecks(e, c, o)
    ELSE AfterPreGeneration(pluginContext)

\* whether needsRegeneration() calls checkPythonVersion(), which starts config.pythonExecutable
\* with spawnSync: the record is read, is not older than the script or version_compat.py,
\* and holds a pythonVersion
ChecksPythonVersion(frc, e, c) ==
    /\ ~frc
    /\ c.state = "ok"
    /\ c.lastGenerated >= e.script.mtime
    /\ ~(e.vc.exists /\ c.lastGenerated < e.vc.mtime)
    /\ c.pythonVersion # Null

\* whether needsRegeneration() executes the PRE_GENERATION hook
ReachesPreGeneration(frc, e, c, o) == ~frc /\ CacheChecks(e, c, o) = "hook"

NeedsRegeneration ==
    /\ pc = "check"
    /\ \E behs \in BehaviourChoicesAt("PRE_GENERATION",
                                      pmSet /\ ReachesPreGeneration(force, env, cache, out)) :
         LET pluginContext ==
                 executePluginHook(pmSet, um, "PRE_GENERATION", PreGenerationContext, behs)
             reason == NeedsRegenerationReason(force, env, cache, out, pluginContext)
         IN /\ res' = [res EXCEPT !.regen = (reason # "none"), !.reason = reason]
            /\ trace' = Log((IF ChecksPythonVersion(force, env, cache)
                               THEN <<"spawnSync">> ELSE <<>>)
                             \o (IF ReachesPreGeneration(force, env, cache, out)
                                   THEN <<"PRE_GENERATION">> ELSE <<>>)
                             \o (IF pluginContext.entry THEN <<"entryStored">> ELSE <<>>))
            /\ pc' = IF reason # "none" THEN "generate" ELSE "hit"
    /\ UNCHANGED <<runs, changedAt, change, force, env, cache, out, temp, pmSet, um, exitCode, snap, prev>>
    /\ UNCHANGED <<pmVars, auxVars>>

\* generateTypes() up to spawn(): the executable is chosen, the PRE_CONVERSION hook runs,
\* preContext.metadata.env is read, the temporary file is opened, the process is spawned.
\* An exception in the .then callback is turned into a rejection by the .catch after it.
GenerateStart(pythonInfo, preContext, openOk) ==
    IF ~preContext.hasMeta
      THEN [pc |-> "failed", temp |-> FALSE, events |-> <<"PRE_CONVERSION">>,
            err |-> [kind |-> "hook", code |-> 0, text |-> ""]]
    ELSE IF ~openOk
      THEN [pc |-> "failed", temp |-> FALSE, events |-> <<"PRE_CONVERSION", "openTempFail">>,
            err |-> [kind |-> "hook", code |-> 0, text |-> ""]]
    ELSE [pc |-> "spawned", temp |-> TRUE, events |-> <<"PRE_CONVERSION", "openTemp", "spawn">>,
          err |-> NoError]

Generate ==
    /\ pc = "generate"
    /\ \E behs \in BehaviourChoices(pmSet), openOk \in BOOLEAN :
         LET pythonInfo == findBestPythonExecutable(env.python)
             preContext ==
                 executePluginHook(pmSet, um, "PRE_CONVERSION", PreConversionContext, behs)
             step == GenerateStart(pythonInfo, preContext, openOk)
         IN /\ pc' = step.pc
            /\ temp' = step.temp
            /\ trace' = Log(step.events)
            /\ res' = [res EXCEPT !.pythonVersion = pythonInfo.version, !.err = step.err]
    /\ UNCHANGED <<runs, changedAt, change, force, env, cache, out, pmSet, um, exitCode, snap, prev>>
    /\ UNCHANGED <<pmVars, auxVars>>

\* pythonProcess.on('error'): the ON_ERROR hook, then the rejection
ProcessError ==
    /\ pc = "spawned"
    /\ trace' = Log(<<"error", "ON_ERROR">>)
    /\ res' = [res EXCEPT !.err = [kind |-> "start", code |-> 0, text |-> ""]]
    /\ pc' = "failed"
    /\ UNCHANGED <<runs, changedAt, change, force, env, cache, out, temp, pmSet, um, exitCode, snap, prev>>
    /\ UNCHANGED <<pmVars, auxVars>>

StderrTexts == {"", "Traceback"}

\* the close handler rejecting with the exit code alone, the collected stderr text left out
ProcessClose_DropStderr(code, errorData, readOk, postContext) ==
    IF code # 0
      THEN [pc |-> "failed", events |-> <<"close1", "ON_ERROR">>, output |-> "undef",
            err |-> [kind |-> "exit", code |-> code, text |-> ""]]
    ELSE IF ~readOk
      THEN [pc |-> "failed", events |-> <<"close0", "readTempFail">>, output |-> "undef",
            err |-> [kind |-> "read", code |-> 0, text |-> ""]]
    ELSE [pc |-> "write", events |-> <<"close0", "readTemp", "POST_CONVERSION">>,
          output |-> IF postContext.tsOutput \notin {"undef", ""}
                       THEN postContext.tsOutput ELSE "gen",
          err |-> NoError]

\* pythonProcess.on('close', code) with errorData the stderr text collected so far
ProcessClose(code, errorData, readOk, postContext) ==
    IF code # 0
      THEN [pc |-> "failed", events |-> <<"close1", "ON_ERROR">>, output |-> "undef",
            err |-> [kind |-> "exit", code |-> code, text |-> errorData]]
    ELSE IF ~readOk
      THEN [pc |-> "failed", events |-> <<"close0", "readTempFail">>, output |-> "undef",
            err |-> [kind |-> "read", code |-> 0, text |-> ""]]
    ELSE [pc |-> "write", events |-> <<"close0", "readTemp", "POST_CONVERSION">>,
          output |-> IF postContext.tsOutput \notin {"undef", ""}
                       THEN postContext.tsOutput ELSE "gen",
          err |-> NoError]

\* the executable that reports no version cannot run the generator script to exit code 0
Close ==
    /\ pc = "spawned"
    /\ \E code \in {0, 1}, errorData \in StderrTexts, readOk \in BOOLEAN,
          behs \in BehaviourChoicesAt("POST_CONVERSION", pmSet) :
         /\ code = 0 => res.pythonVersion # Null
         /\ code # 0 => readOk /\ behs = SameBehaviours
         /\ LET postContext ==
                    executePluginHook(pmSet, um, "POST_CONVERSION", PostConversionContext("gen"), behs)
                step == ProcessClose(code, errorData, readOk, postContext)
            IN /\ pc' = step.pc
               /\ trace' = Log(step.events
                                \o (IF step.pc = "write" /\ postContext.tsOutput = ""
                                      THEN <<"tsOutputEmpty">> ELSE <<>>))
               /\ res' = [res EXCEPT !.output = step.output,
                                     !.errorData = IF code # 0 THEN errorData ELSE "",
                                     !.err = step.err]
    /\ UNCHANGED <<runs, changedAt, change, force, env, cache, out, temp, pmSet, um, exitCode, snap, prev>>
    /\ UNCHANGED <<pmVars, auxVars>>

\* writeOutput(output): an error of writeFileSync is logged and false is returned
writeOutput(o, output, ok, now) ==
    IF ok THEN [exists |-> TRUE, text |-> output, mtime |-> now] ELSE o

WriteOutput ==
    /\ pc = "write"
    /\ \E ok \in BOOLEAN :
         /\ out' = writeOutput(out, res.output, ok, Now)
         /\ trace' = Log(IF ok THEN <<"writeOutput">> ELSE <<"writeOutputFail">>)
    /\ pc' = "cache"
    /\ UNCHANGED <<runs, changedAt, change, force, env, cache, temp, pmSet, um, res, exitCode, snap, prev>>
    /\ UNCHANGED <<pmVars, auxVars>>

\* updateCache(output, pythonVersion): an error is logged and false is returned
updateCache(c, e, pythonVersion, ok, now) ==
    IF ok THEN CacheData(e, pythonVersion, now) ELSE c

UpdateCache ==
    /\ pc = "cache"
    /\ \E ok \in BOOLEAN :
         /\ cache' = updateCache(cache, env, res.pythonVersion, ok, Now)
         /\ trace' = Log(IF ok THEN <<"updateCache">> ELSE <<"updateCacheFail">>)
    /\ pc' = "postgen"
    /\ UNCHANGED <<runs, changedAt, change, force, env, out, temp, pmSet, um, res, exitCode, snap, prev>>
    /\ UNCHANGED <<pmVars, auxVars>>

\* the POST_GENERATION hook of either branch of main()
PostGeneration ==
    /\ pc \in {"postgen", "hit"}
    /\ trace' = Log(<<"POST_GENERATION">>)
    /\ pc' = "final"
    /\ UNCHANGED <<runs, changedAt, change, force, env, cache, out, temp, pmSet, um, res, exitCode, snap, prev>>
    /\ UNCHANGED <<pmVars, auxVars>>

\* the catch block logging the error and ending the process with exit code 0
MainCatch_ExitZero(t) == [events |-> t \o <<"processExit">>, exitCode |-> 0, cleans |-> FALSE]

\* catch (error) { console.error(...); process.exit(1) }: the process ends inside the catch
\* block, the finally block is not entered
MainCatch(t) == [events |-> t \o <<"processExit">>, exitCode |-> 1, cleans |-> FALSE]

Catch ==
    /\ pc = "failed"
    /\ LET step == MainCatch(trace)
       IN /\ trace' = step.events
          /\ exitCode' = step.exitCode
    /\ pc' = "done"
    /\ UNCHANGED <<runs, changedAt, change, force, env, cache, out, temp, pmSet, um, res, snap, prev>>
    /\ UNCHANGED <<pmVars, auxVars>>

\* finally { cleanup(); if (pluginManager) await pluginManager.cleanup() }, then the
\* process ends with exit code 0
Finally ==
    /\ pc = "final"
    /\ trace' = Log((IF temp THEN <<"unlinkTemp">> ELSE <<>>)
                      \o (IF pmSet THEN <<"pluginCleanup">> ELSE <<>>))
    /\ temp' = FALSE
    /\ um' = IF pmSet THEN cleanupU(um) ELSE um
    /\ exitCode' = 0
    /\ pc' = "done"
    /\ UNCHANGED <<runs, changedAt, change, force, env, cache, out, pmSet, res, snap, prev>>
    /\ UNCHANGED <<pmVars, auxVars>>

Next ==
    \/ StartRun
    \/ SetupPlugins
    \/ NeedsRegeneration
    \/ Generate
    \/ ProcessError
    \/ Close
    \/ WriteOutput
    \/ UpdateCache
    \/ PostGeneration
    \/ Catch
    \/ Finally
    \/ EditScript
    \/ EditCompat
    \/ RemoveCompat
    \/ RemoveOutput
    \/ DamageCache
    \/ TouchStub
    \/ RemoveStub
    \/ ChmodStubDir
    \/ ChangePython

Spec == Init /\ [][Next]_vars

\* ---------------------------------------------------------------- the plugin hosts on their own
\* every list of at most MaxDefs definitions
DefLists == UNION {[1..n -> Definitions] : n \in 0..MaxDefs}

InitPM ==
    /\ pluginDefs \in DefLists
    /\ discovered \in PluginDirs
    /\ Len(pluginDefs) + DirSize(discovered) <= MaxDefs
    /\ um = NewManagerU(setupPluginDefs(pluginDefs, discovered))
    /\ rm = NewManagerR
    /\ lastU = NoHookResult
    /\ lastR = NoHookResult
    /\ lastCleanup = NoCleanup
    /\ io = NoIO
    /\ py = NoPy /\ tasks = NoTasks /\ bridge = NoBridge
    /\ pmSet = TRUE
    /\ pc = "host"
    /\ runs = 0
    /\ changedAt = -1
    /\ change = "none"
    /\ force = FALSE
    /\ env = [script |-> [content |-> 1, mtime |-> 1],
              vc |-> [exists |-> TRUE, content |-> 1, mtime |-> 1],
              stubs |-> [dir |-> FALSE, a |-> 0, b |-> 0, z |-> 0, unreadable |-> FALSE],
              python |-> [cfg |-> <<3, 8>>, cands |-> <<>>]]
    /\ cache = NoCache
    /\ out = [exists |-> FALSE, text |-> "", mtime |-> 0]
    /\ temp = FALSE
    /\ trace = <<>>
    /\ res = NoRes
    /\ exitCode = -1
    /\ snap = [cache |-> cache, out |-> out]
    /\ prev = [succeeded |-> FALSE, force |-> FALSE]

\* await manager.initialize() on both hosts
HostInitialize ==
    /\ pc = "host"
    /\ um' = initializeU(um)
    /\ rm' = initializeR(rm, pluginDefs, discovered)
    /\ lastCleanup' = NoCleanup
    /\ UNCHANGED <<pluginDefs, discovered, lastU, lastR, pmSet>>
    /\ UNCHANGED <<driverVars, auxVars>>

\* what a plugin may do in an execution of a hook on the hosts
HostBehaviours == [PluginNames -> Behaviours \ {"force", "nometa"}]

\* await manager.executeHook(hook, context) on both hosts; behs[name] is what the plugin
\* called name does at this execution. executeHook leaves an initialized host as it is, so
\* the executions that follow one another without a cleanup start from the same hosts:
\* one is taken.
HostExecuteHook ==
    /\ pc = "host"
    /\ lastU.status = "none"
    /\ \E hook \in {"POST_CONVERSION"}, behs \in HostBehaviours :
         LET context == PostConversionContext("gen")
             ru == executeHookU(um, hook, context, behs)
         IN /\ um' = ru.mgr
            /\ lastU' = [status |-> ru.status, ctx |-> ru.ctx, calls |-> ru.calls,
                          loaded |-> MapKeys(ru.mgr.plugins)]
            /\ lastR' = executeHookR(rm, hook, context, behs)
                          @@ [loaded |-> IF ~rm.initialized \/ ~rm.pluginsEnabled
                                           THEN {}
                                           ELSE {SortedPluginsR(rm)[i].name :
                                                   i \in 1..Len(SortedPluginsR(rm))}]
    /\ lastCleanup' = NoCleanup
    /\ UNCHANGED <<pluginDefs, discovered, rm, pmSet>>
    /\ UNCHANGED <<driverVars, auxVars>>

\* manager.cleanup() on both hosts; behs[name] is what the cleanup of the plugin called
\* name does
HostCleanup ==
    /\ pc = "host"
    /\ um' = cleanupU(um)
    /\ rm' = cleanupR(rm)
    /\ lastU' = NoHookResult
    /\ lastR' = NoHookResult
    /\ \E behs \in CleanupBehaviours :
         lastCleanup' = [done |-> TRUE, u |-> cleanupCallsU(um, behs), r |-> cleanupCallsR(rm, behs)]
    /\ UNCHANGED <<pluginDefs, discovered, pmSet>>
    /\ UNCHANGED <<driverVars, auxVars>>

NextPM ==
    \/ HostInitialize
    \/ HostExecuteHook
    \/ HostCleanup

SpecPM == InitPM /\ [][NextPM]_vars

\* ---------------------------------------------------------------- a write seen by a reader
\* writeOutput and updateCache write their file in place with fs.writeFileSync(path, data):
\* the file is opened with flag 'w' (created or truncated), the data is written in one or
\* more write calls, the file is closed. Another process may read the file between any two
\* of these steps. A content is a non-empty sequence of chunks.
Chunks == {"x", "y"}

Contents == UNION {[1..n -> Chunks] : n \in 1..MaxChunks}

WrittenPaths == {"outputFile", "cacheFile"}

InitIO ==
    /\ io \in {[path |-> p, old |-> o, new |-> n, file |-> o, wpc |-> "start", seen |-> <<>>] :
                 p \in WrittenPaths, o \in Contents, n \in Contents}
    /\ pc = "io"
    /\ runs = 0
    /\ changedAt = -1
    /\ change = "none"
    /\ force = FALSE
    /\ env = [script |-> [content |-> 1, mtime |-> 1],
              vc |-> [exists |-> TRUE, content |-> 1, mtime |-> 1],
              stubs |-> [dir |-> FALSE, a |-> 0, b |-> 0, z |-> 0, unreadable |-> FALSE],
              python |-> [cfg |-> <<3, 8>>, cands |-> <<>>]]
    /\ cache = NoCache
    /\ out = [exists |-> FALSE, text |-> "", mtime |-> 0]
    /\ temp = FALSE
    /\ pmSet = FALSE
    /\ pluginDefs = <<>>
    /\ discovered = [readable |-> TRUE, packages |-> <<>>]
    /\ um = NewManagerU(pluginDefs)
    /\ trace = <<>>
    /\ res = NoRes
    /\ exitCode = -1
    /\ snap = [cache |-> cache, out |-> out]
    /\ prev = [succeeded |-> FALSE, force |-> FALSE]
    /\ rm = NewManagerR
    /\ lastU = NoHookResult
    /\ lastR = NoHookResult
    /\ lastCleanup = NoCleanup
    /\ py = NoPy /\ tasks = NoTasks /\ bridge = NoBridge

\* fs.writeFileSync, first step: open(path, 'w') truncates the existing file
writeFileSyncOpen(f) == [f EXCEPT !.file = <<>>, !.wpc = "open"]

\* fs.writeFileSync, the write loop: a write call appends the next n chunks of the data
writeFileSyncWrite(f, n) ==
    [f EXCEPT !.file = SubSeq(f.new, 1, Len(f.file) + n), !.wpc = "open"]

\* fs.writeFileSync, last step: the file is closed when all the data is written
writeFileSyncClose(f) == [f EXCEPT !.wpc = "closed"]

WriteFileOpen ==
    /\ pc = "io" /\ io.wpc = "start"
    /\ io' = writeFileSyncOpen(io)
    /\ UNCHANGED <<driverVars, pmVars, pmSet, um, py, tasks, bridge>>

WriteFileWrite ==
    /\ pc = "io" /\ io.wpc = "open" /\ Len(io.file) < Len(io.new)
    /\ \E n \in 1..(Len(io.new) - Len(io.file)) : io' = writeFileSyncWrite(io, n)
    /\ UNCHANGED <<driverVars, pmVars, pmSet, um, py, tasks, bridge>>

WriteFileClose ==
    /\ pc = "io" /\ io.wpc = "open" /\ Len(io.file) = Len(io.new)
    /\ io' = writeFileSyncClose(io)
    /\ UNCHANGED <<driverVars, pmVars, pmSet, um, py, tasks, bridge>>

\* another process reads the whole file as it is on disk now
ReadFile ==
    /\ pc = "io"
    /\ io' = [io EXCEPT !.seen = <<io.file>>]
    /\ UNCHANGED <<driverVars, pmVars, pmSet, um, py, tasks, bridge>>

NextIO ==
    \/ WriteFileOpen
    \/ WriteFileWrite
    \/ WriteFileClose
    \/ ReadFile

SpecIO == InitIO /\ [][NextIO]_vars

\* ---------------------------------------------------------------- the parts a specification leaves alone
\* the driver is not running: main() is at position p of another specification
DriverIdleAt(p) ==
    /\ pc = p
    /\ runs = 0
    /\ changedAt = -1
    /\ change = "none"
    /\ force = FALSE
    /\ env = [script |-> [content |-> 1, mtime |-> 1],
              vc |-> [exists |-> TRUE, content |-> 1, mtime |-> 1],
              stubs |-> [dir |-> FALSE, a |-> 0, b |-> 0, z |-> 0, unreadable |-> FALSE],
              python |-> [cfg |-> <<3, 8>>, cands |-> <<>>]]
    /\ cache = NoCache
    /\ out = [exists |-> FALSE, text |-> "", mtime |-> 0]
    /\ temp = FALSE
    /\ pmSet = FALSE
    /\ trace = <<>>
    /\ res = NoRes
    /\ exitCode = -1
    /\ snap = [cache |-> cache, out |-> out]
    /\ prev = [succeeded |-> FALSE, force |-> FALSE]

\* the root host and the records of the hosts' last operations are unused
RootHostIdle ==
    /\ rm = NewManagerR
    /\ lastU = NoHookResult
    /\ lastR = NoHookResult
    /\ lastCleanup = NoCleanup

\* ---------------------------------------------------------------- the choice of the Python executable
\* the versions an executable may report: below, at and above the bounds of the supported
\* range, with another major version on either side
PythonVersions == {<<2, 7>>, <<3, 5>>, <<3, 6>>, <<3, 8>>, <<3, 10>>, <<3, 11>>, <<3, 12>>, <<4, 0>>}

\* the candidates `which` finds, in the order of candidateExecutables
CandidateLists == UNION {[1..n -> PythonVersions] : n \in 0..MaxCands}

InitPy ==
    /\ py \in [python : [cfg : PythonVersions \cup {Null}, cands : CandidateLists],
               result : {<<>>}]
    /\ DriverIdleAt("py")
    /\ pluginDefs = <<>>
    /\ discovered = [readable |-> TRUE, packages |-> <<>>]
    /\ um = NewManagerU(pluginDefs)
    /\ RootHostIdle
    /\ io = NoIO /\ tasks = NoTasks /\ bridge = NoBridge

\* const pythonInfo = findBestPythonExecutable()
FindBestPythonExecutable ==
    /\ pc = "py"
    /\ py.result = <<>>
    /\ py' = [py EXCEPT !.result = <<findBestPythonExecutable(py.python)>>]
    /\ UNCHANGED <<driverVars, pmVars, pmSet, um, io, tasks, bridge>>

NextPy == FindBestPythonExecutable

SpecPy == InitPy /\ [][NextPy]_vars

\* ---------------------------------------------------------------- overlapping calls on one host
\* initialize() and executeHook() of utils/plugin-manager.ts are async functions: a call runs
\* until its next await, and other calls may run before it is resumed. initialize() awaits
\* this.loadPlugin(pluginDef) once for every enabled definition; loadPlugin has no await,
\* so require(module), the constructor and plugin.initialize(pluginDef) have all run when
\* the call is suspended. inits[i] counts the invocations of plugin.initialize for the
\* i-th definition in priority order.
TaskKinds == {"initialize", "executeHook"}

NewTask(kind) == [kind |-> kind, pc |-> "ready", i |-> 0]

\* where a call goes on when initialize() has returned
AfterInitialize(kind) == IF kind = "executeHook" THEN "hooks" ELSE "done"

\* the for loop of initialize() from the i-th sorted definition up to the next await (at is
\* the definition whose loadPlugin is awaited) or up to this.initialized = true (at = 0)
RECURSIVE InitializeLoop(_, _, _, _)
InitializeLoop(m, sorted, i, inits) ==
    IF i > Len(sorted) THEN [mgr |-> [m EXCEPT !.initialized = TRUE], at |-> 0, inits |-> inits]
    ELSE IF sorted[i].enabled = FALSE THEN InitializeLoop(m, sorted, i + 1, inits)
    ELSE [mgr |-> m, at |-> i,
          inits |-> IF LoadsU(sorted[i]) THEN [inits EXCEPT ![i] = @ + 1] ELSE inits]

\* after the await: this.plugins.set, this.pluginConfigs.set, or the catch that logs
AfterLoadPlugin(m, def) ==
    IF LoadsU(def)
      THEN [m EXCEPT !.plugins = MapSet(@, def.name, def),
                     !.pluginConfigs = MapSet(@, def.name, def)]
      ELSE m

\* a call after its loop has run to at
Suspended(t, at) ==
    IF at = 0 THEN [t EXCEPT !.pc = AfterInitialize(t.kind), !.i = 0]
    ELSE [t EXCEPT !.pc = "loading", !.i = at]

InitAsync ==
    /\ pluginDefs \in DefLists
    /\ discovered = [readable |-> TRUE, packages |-> <<>>]
    /\ um = NewManagerU(pluginDefs)
    /\ tasks \in {[calls |-> [k \in 1..n |-> NewTask(kinds[k])],
                   inits |-> [i \in 1..Len(pluginDefs) |-> 0]] :
                    n \in {MaxTasks}, kinds \in [1..MaxTasks -> TaskKinds]}
    /\ DriverIdleAt("async")
    /\ RootHostIdle
    /\ io = NoIO /\ py = NoPy /\ bridge = NoBridge

\* manager.initialize() or manager.executeHook(hook, context) is called: it runs to its
\* first await
CallTask(k) ==
    LET t == tasks.calls[k]
        sorted == SortByPriority(um.pluginDefs)
        r == InitializeLoop(um, sorted, 1, tasks.inits)
    IN /\ pc = "async"
       /\ t.pc = "ready"
       /\ UNCHANGED <<driverVars, pmVars, pmSet, io, py, bridge>>
       /\ IF um.initialized
            THEN /\ tasks' = [tasks EXCEPT !.calls[k].pc = AfterInitialize(t.kind)]
                 /\ UNCHANGED um
            ELSE /\ um' = r.mgr
                 /\ tasks' = [calls |-> [tasks.calls EXCEPT ![k] = Suspended(t, r.at)],
                              inits |-> r.inits]

\* a call suspended at await this.loadPlugin(pluginDef) is resumed and runs to its next await
ResumeTask(k) ==
    LET t == tasks.calls[k]
        sorted == SortByPriority(um.pluginDefs)
        r == InitializeLoop(AfterLoadPlugin(um, sorted[t.i]), sorted, t.i + 1, tasks.inits)
    IN /\ pc = "async"
       /\ t.pc = "loading"
       /\ UNCHANGED <<driverVars, pmVars, pmSet, io, py, bridge>>
       /\ um' = r.mgr
       /\ tasks' = [calls |-> [tasks.calls EXCEPT ![k] = Suspended(t, r.at)],
                    inits |-> r.inits]

\* executeHook goes on after await this.initialize(): the loop over this.plugins
HooksTask(k) ==
    /\ pc = "async"
    /\ tasks.calls[k].pc = "hooks"
    /\ tasks' = [tasks EXCEPT !.calls[k].pc = "done"]
    /\ UNCHANGED <<driverVars, pmVars, pmSet, um, io, py, bridge>>

NextAsync ==
    \/ \E k \in 1..Len(tasks.calls) : CallTask(k)
    \/ \E k \in 1..Len(tasks.calls) : ResumeTask(k)
    \/ \E k \in 1..Len(tasks.calls) : HooksTask(k)

SpecAsync == InitAsync /\ [][NextAsync]_vars

\* ---------------------------------------------------------------- the bridge to the Python process
\* FeatureToolsBridge of src/bridge.ts. bridge.stdin holds the request lines written and not
\* yet read by the Python process, bridge.stdout the chunks it has written and the 'data'
\* event has not yet delivered (a chunk is the sequence of the response lines in it),
\* bridge.listeners the calls whose once('data') listener is registered, in order, and
\* bridge.calls the callFunction calls with the settlement of their promises.
FunctionNames == {"dfs", "calculate_feature_matrix"}

Outcomes == {"result", "error"}

NewCall(fn) == [pc |-> "ready", fn |-> fn, settled |-> <<>>]

\* JSON.stringify({function, params}) of call k, as the line the Python process reads
Request(k, fn) == [of |-> k, fn |-> fn]

\* the line the Python process answers a request with
Response(req, outcome) == [to |-> req.of, fn |-> req.fn, kind |-> outcome]

\* the listener of callFunction on a chunk: JSON.parse of the whole chunk throws when it
\* holds more than one line, else the promise is rejected for response.error and resolved
\* with response.result
OnData(chunk) ==
    IF Len(chunk) # 1 THEN [kind |-> "reject", to |-> 0, fn |-> "SyntaxError"]
    ELSE IF chunk[1].kind = "error" THEN [kind |-> "reject", to |-> chunk[1].to, fn |-> chunk[1].fn]
    ELSE [kind |-> "resolve", to |-> chunk[1].to, fn |-> chunk[1].fn]

\* the executor of the returned promise: stdin.write(request) and stdout.once('data', ...)
SendRequest(b, k) ==
    [b EXCEPT !.stdin = Append(@, Request(k, b.calls[k].fn)),
              !.listeners = Append(@, k),
              !.calls[k].pc = "pending"]

InitBridge ==
    /\ bridge \in {[NoBridge EXCEPT !.calls = [k \in 1..MaxCalls |-> NewCall(fns[k])]] :
                     fns \in [1..MaxCalls -> FunctionNames]}
    /\ pluginDefs = <<>>
    /\ discovered = [readable |-> TRUE, packages |-> <<>>]
    /\ um = NewManagerU(<<>>)
    /\ DriverIdleAt("bridge")
    /\ RootHostIdle
    /\ io = NoIO /\ py = NoPy /\ tasks = NoTasks

\* callFunction(functionName, params) is called: a bridge not yet initialized is initialized
\* and the call suspended at the await, else the request is sent at once
CallFunction(k) ==
    /\ pc = "bridge"
    /\ bridge.calls[k].pc = "ready"
    /\ UNCHANGED <<driverVars, pmVars, pmSet, um, io, py, tasks>>
    /\ bridge' = IF ~bridge.initialized
                   THEN [bridge EXCEPT !.initialized = TRUE, !.calls[k].pc = "awaiting"]
                   ELSE SendRequest(bridge, k)

\* the call is resumed after await this.initialize()
ResumeCall(k) ==
    /\ pc = "bridge"
    /\ bridge.calls[k].pc = "awaiting"
    /\ UNCHANGED <<driverVars, pmVars, pmSet, um, io, py, tasks>>
    /\ bridge' = SendRequest(bridge, k)

\* the Python process reads the next request line and writes its response, which the pipe
\* delivers as a chunk of its own or together with a response not yet delivered
PythonResponds ==
    /\ pc = "bridge"
    /\ bridge.stdin # <<>>
    /\ UNCHANGED <<driverVars, pmVars, pmSet, um, io, py, tasks>>
    /\ \E outcome \in Outcomes, joined \in BOOLEAN :
         LET resp == Response(Head(bridge.stdin), outcome)
             n == Len(bridge.stdout)
         IN /\ joined => n > 0
            /\ bridge' = [bridge EXCEPT
                 !.stdin = Tail(@),
                 !.stdout = IF joined THEN [@ EXCEPT ![n] = Append(@, resp)]
                            ELSE Append(@, <<resp>>)]

\* stdout emits 'data' with the next chunk: every listener registered with once() is
\* called with it and removed
DataEvent ==
    /\ pc = "bridge"
    /\ bridge.stdout # <<>>
    /\ UNCHANGED <<driverVars, pmVars, pmSet, um, io, py, tasks>>
    /\ LET chunk == Head(bridge.stdout)
           heard == {bridge.listeners[i] : i \in 1..Len(bridge.listeners)}
       IN bridge' = [bridge EXCEPT
            !.stdout = Tail(@),
            !.listeners = <<>>,
            !.calls = [k \in 1..Len(@) |->
                         IF k \in heard
                           THEN [@[k] EXCEPT !.pc = "settled", !.settled = <<OnData(chunk)>>]
                           ELSE @[k]]]

NextBridge ==
    \/ \E k \in 1..Len(bridge.calls) : CallFunction(k)
    \/ \E k \in 1..Len(bridge.calls) : ResumeCall(k)
    \/ PythonResponds
    \/ DataEvent

SpecBridge == InitBridge /\ [][NextBridge]_vars

\* ---------------------------------------------------------------- reading a run's trace
Count(t, e) == Cardinality({i \in 1..Len(t) : t[i] = e})

Has(t, e) == Count(t, e) > 0

\* the position of the first e in t, 0 when there is none
Pos(t, e) == IF Has(t, e) THEN CHOOSE i \in 1..Len(t) : t[i] = e /\ \A j \in 1..(i - 1) : t[j] # e
             ELSE 0

\* a run has ended and the environment is as the run left it
RunEnded == pc = "done" /\ runs >= 1 /\ changedAt # runs

\* the steps of cleanup after the pipeline
CleanupEvents == {"unlinkTemp", "pluginCleanup"}

\* ================================================================ claims

\* the current run takes the cache-hit path: needsRegeneration has returned false, no
\* subprocess is spawned, output file and cache file are as they were
CacheHitRun ==
    /\ ~res.regen
    /\ ~Has(trace, "spawn")
    /\ out = snap.out
    /\ cache = snap.cache

\* the previous run was started without --force and succeeded, nothing was changed since,
\* and this run was started without --force
UnchangedSecondRun ==
    /\ pc \notin {"idle", "setup", "check"}
    /\ runs >= 2
    /\ prev.succeeded /\ ~prev.force
    /\ changedAt \notin {runs - 1, runs}
    /\ ~force

\* C1: the second of two consecutive runs without --force, the first successful and
\* nothing changed in between, takes the cache-hit path. (Left out: the runs in which a
\* plugin asks for regeneration at the PRE_GENERATION hook or breaks the context there, and
\* the runs after a generation that found no stub file, whose record holds no stub hash.)
C1_SecondRunHitsCache ==
    (/\ UnchangedSecondRun
     /\ res.reason \notin {"plugin", "error"}
     /\ snap.cache.stubFilesHash # EmptyString) => CacheHitRun

\* what updateCache would write now
FreshCacheData == CacheData(env, findBestPythonExecutable(env.python).version, Now)

\* C2: whenever needsRegeneration has returned false, scriptHash, versionCompatHash,
\* stubFilesHash and pythonVersion of the cache record equal what updateCache would
\* compute in the current state.
C2_HitMeansFreshRecord ==
    pc = "hit" =>
        /\ cache.scriptHash = FreshCacheData.scriptHash
        /\ cache.versionCompatHash = FreshCacheData.versionCompatHash
        /\ cache.stubFilesHash = FreshCacheData.stubFilesHash
        /\ cache.pythonVersion = FreshCacheData.pythonVersion

\* C3: a run started with --force spawns the subprocess and, when it exits with code 0,
\* rewrites the output file and the cache record with a new lastGenerated. (The runs in
\* which opening, reading or writing a file fails are left out.)
C3_ForceAlwaysRegenerates ==
    (RunEnded /\ force /\ ~Faulted(trace)) =>
        /\ res.regen
        /\ Has(trace, "spawn")
        /\ Has(trace, "close0") =>
             /\ Has(trace, "writeOutput") /\ out.exists /\ out.mtime = Now
             /\ Has(trace, "updateCache") /\ cache.state = "ok" /\ cache.lastGenerated = Now

\* C4: a run that regenerates executes the PRE_GENERATION hook exactly once, before the
\* subprocess is spawned.
C4_PreGenerationBeforeSpawn ==
    (RunEnded /\ res.regen /\ Has(trace, "spawn")) =>
        /\ Count(trace, "PRE_GENERATION") = 1
        /\ Pos(trace, "PRE_GENERATION") < Pos(trace, "spawn")

\* POST_GENERATION is the last step of the pipeline: only cleanup follows it
PostGenerationLast ==
    \A i \in 1..Len(trace) :
        i > Pos(trace, "POST_GENERATION") => trace[i] \in CleanupEvents

\* C5: a successful run executes the POST_GENERATION hook exactly once and as the last
\* pipeline step; on the cache-miss path the subprocess has exited, then the output file
\* has been written, then the cache record, before the hook runs.
C5_PostGenerationLast ==
    (RunEnded /\ exitCode = 0) =>
        /\ Count(trace, "POST_GENERATION") = 1
        /\ PostGenerationLast
        /\ res.regen =>
             /\ 0 < Pos(trace, "close0")
             /\ Pos(trace, "close0") < Pos(trace, "writeOutput")
             /\ Pos(trace, "writeOutput") < Pos(trace, "updateCache")
             /\ Pos(trace, "updateCache") < Pos(trace, "POST_GENERATION")

\* C6: a run that ends in failure has executed the ON_ERROR hook before the process exits.
C6_ErrorHookOnFailure ==
    (RunEnded /\ exitCode # 0) =>
        /\ Has(trace, "ON_ERROR")
        /\ Pos(trace, "ON_ERROR") < Pos(trace, "processExit")

\* C7: every run, successful or failed, has removed the temporary output file it created
\* and has called the plugin manager's cleanup() when plugins were loaded. (The runs in
\* which opening, reading or writing a file fails are left out.)
C7_CleanupOnEveryRun ==
    (RunEnded /\ ~Faulted(trace)) =>
        /\ Has(trace, "openTemp") => (Has(trace, "unlinkTemp") /\ ~temp)
        /\ pmSet => Has(trace, "pluginCleanup")

\* C8: a run whose subprocess exited with a non-zero code leaves output file and cache file
\* as they were, does not execute the POST_GENERATION hook, and ends with an error that
\* carries the captured stderr text.
C8_NonZeroExitLeavesFiles ==
    (RunEnded /\ Has(trace, "close1")) =>
        /\ out = snap.out
        /\ cache = snap.cache
        /\ ~Has(trace, "POST_GENERATION")
        /\ exitCode = 1
        /\ res.err.kind = "exit"
        /\ res.err.text = res.errorData

\* a run over an existing output file and cache record whose subprocess wrote to stderr
\* and exited with a non-zero code
C8_Witness ==
    /\ RunEnded
    /\ Has(trace, "close1")
    /\ res.errorData = "Traceback"
    /\ snap.out.exists
    /\ snap.cache.state = "ok"

\* the names of the plugins an execution invoked
Called(result) == {result.calls[i].name : i \in 1..Len(result.calls)}

\* an execution invoked every loaded, enabled plugin once and resolved
AllInvoked(result) ==
    /\ result.status = "resolved"
    /\ Called(result) = result.loaded
    /\ Len(result.calls) = Cardinality(result.loaded)
    /\ result.ctx.kind \in {"object", "undefined"}

\* C9: when a plugin's onHook throws or rejects, the later plugins are still invoked for
\* the same hook and executeHook resolves, on both hosts.
C9_FailureIsolated ==
    /\ lastU.status # "none" => AllInvoked(lastU)
    /\ lastR.status # "none" => AllInvoked(lastR)

\* a plugin threw and another plugin was invoked after it
ThrewThenCalled(result) ==
    \E i, j \in 1..Len(result.calls) :
        i < j /\ result.calls[i].beh = "throw" /\ result.calls[j].beh = "same"

C9_Witness == ThrewThenCalled(lastU) /\ ThrewThenCalled(lastR) /\ lastU.status = "resolved"

\* the invocations of an execution are in non-decreasing order of the priority of the
\* definition each invoked plugin was loaded from
InPriorityOrder(result) ==
    \A i, j \in 1..Len(result.calls) :
        i < j => result.calls[i].priority <= result.calls[j].priority

\* C10: for every list of definitions, names repeated or not, executeHook invokes the
\* loaded, enabled plugins in non-decreasing order of priority, a missing priority
\* counting as 100.
C10_PriorityOrder == InPriorityOrder(lastU) /\ InPriorityOrder(lastR)

\* the context handed on after invocation i: to the next plugin, or returned by executeHook
HandedOn(result, i) ==
    IF i < Len(result.calls) THEN result.calls[i + 1].given ELSE result.ctx

\* every plugin that returned undefined left the working context as it was
UndefinedIsNoChange(result) ==
    \A i \in 1..Len(result.calls) :
        result.calls[i].beh = "undef" => HandedOn(result, i) = result.calls[i].given

\* C11: on both hosts, after a plugin's onHook returns undefined the next plugin receives,
\* and executeHook finally returns, the context that was current before that plugin ran.
C11_UndefinedIsNoChange == UndefinedIsNoChange(lastU) /\ UndefinedIsNoChange(lastR)

\* the changes of the stub files: a .pyi file added, removed, or given a new modification time
StubChanges == {"addStub", "removeStub", "touchStub"}

\* needsRegeneration has returned in a run that follows a successful run and, after it, the
\* change named kind
DecidedAfter(kinds) ==
    /\ pc \notin {"idle", "setup", "check"}
    /\ runs >= 2
    /\ changedAt = runs - 1
    /\ change \in kinds
    /\ prev.succeeded

\* C12: after a successful run, adding, removing or touching a .pyi file under the stub
\* directory makes needsRegeneration return true on the next run.
C12_StubChangeRegenerates == DecidedAfter(StubChanges) => res.regen

\* the version of the executable findBestPythonExecutable selects in the current environment
SelectedVersion == findBestPythonExecutable(env.python).version

\* needsRegeneration has returned in a run without --force that found a readable cache
\* record, and the environment is the one it decided in
DecidedWithRecord ==
    /\ pc \notin {"idle", "setup", "check"}
    /\ runs >= 1
    /\ changedAt # runs
    /\ ~force
    /\ snap.cache.state = "ok"

\* a selected version that differs from the recorded one makes the run regenerate
SelectedVersionChecked ==
    (DecidedWithRecord /\ SelectedVersion # Null /\ SelectedVersion # snap.cache.pythonVersion)
        => res.regen

\* the record written by a run holds the version of the executable that ran the script
RecordsSelectedVersion ==
    (RunEnded /\ exitCode = 0 /\ Has(trace, "updateCache"))
        => cache.pythonVersion = res.pythonVersion /\ cache.pythonVersion = SelectedVersion

\* an unchanged following run does not find the Python version changed
SameVersionCompared == UnchangedSecondRun => res.reason # "python"

\* C13: a selected Python version that differs from the recorded pythonVersion makes the run
\* regenerate; after the run succeeds the record holds the version of the executable that
\* ran the generator script, and an unchanged following run compares against that version.
C13_PythonVersionRecorded ==
    SelectedVersionChecked /\ RecordsSelectedVersion /\ SameVersionCompared

\* C14: when the content of the generator script differs from the content whose hash the
\* cache record holds as scriptHash, needsRegeneration returns true, whatever the script's
\* modification time is and whatever the other checks find.
C14_ScriptContentRegenerates ==
    (DecidedWithRecord /\ snap.cache.scriptHash # Md5(env.script.content)) => res.regen

\* the script was edited with its modification time kept, and only the hash check noticed
C14_Witness ==
    /\ DecidedWithRecord
    /\ snap.cache.scriptHash # Md5(env.script.content)
    /\ snap.cache.lastGenerated >= env.script.mtime
    /\ res.reason = "script-hash"

\* what can make a run end in failure: the subprocess, a file operation, a plugin's answer
FailureCause ==
    \/ Has(trace, "close1") \/ Has(trace, "error") \/ Faulted(trace)
    \/ res.err.kind = "hook"

\* C15: with a cache file that cannot be read or parsed, needsRegeneration returns true
\* and does not throw, the run goes on as a run without a cache file does (no
\* PRE_GENERATION hook, generation, a new record), and it does not fail because of the
\* cache file.
C15_UnreadableCacheRegenerates ==
    (pc \notin {"idle", "setup", "check"} /\ runs >= 1 /\ snap.cache.state = "corrupt") =>
        /\ res.regen
        /\ pc # "hit"
        /\ ReachesPreGeneration(force, env, snap.cache, snap.out)
             = ReachesPreGeneration(force, env, NoCache, snap.out)
        /\ ~Has(trace, "PRE_GENERATION")
        /\ Has(trace, "updateCache") => cache = CacheData(env, res.pythonVersion, Now)
        /\ (RunEnded /\ exitCode # 0) => FailureCause

\* a run without --force found the cache file unparsable, regenerated and wrote a new record
C15_Witness ==
    /\ RunEnded /\ ~force /\ snap.cache.state = "corrupt"
    /\ exitCode = 0 /\ cache.state = "ok" /\ Has(trace, "spawn")

\* C16: on a run in which needsRegeneration returns false, no process of the Python
\* runtime is started: neither the introspection subprocess nor a version query.
C16_HitStartsNoPython ==
    (RunEnded /\ ~res.regen) => ~Has(trace, "spawn") /\ ~Has(trace, "spawnSync")

C18_ReaderSeesCompleteFile == io.seen # <<>> => io.seen[1] \in {io.old, io.new}

\* the names that both the configuration file and the plugins directory hold
Collisions ==
    {pluginDefs[i].name : i \in 1..Len(pluginDefs)}
        \cap {discovered.packages[i].name : i \in 1..Len(discovered.packages)}

\* no plugin of a colliding name is loaded from its auto-discovered definition
NoDiscoveredOverConfigured(plugins) ==
    \A i \in 1..Len(plugins) :
        plugins[i].key \in Collisions => plugins[i].val.module # DiscoveredModule

\* C19: a plugin found by auto-discovery whose name is that of an entry of the configuration
\* file is never loaded from its discovered definition, whether the configured entry is
\* enabled, disabled or failed to load: by setupPlugins with the host of
\* utils/plugin-manager.ts, and by the host of src/plugin-manager.ts.
C19_ConfiguredNameWins ==
    /\ NoDiscoveredOverConfigured(um.plugins)
    /\ NoDiscoveredOverConfigured(rm.plugins)

\* cleanup() called the cleanup of every plugin that was loaded, did not throw, and left
\* the host with empty registries and not initialized
CleanedAll(cleaned, host) ==
    /\ cleaned.status = "resolved"
    /\ {cleaned.calls[i].name : i \in 1..Len(cleaned.calls)} = cleaned.loaded
    /\ Len(cleaned.calls) = Cardinality(cleaned.loaded)
    /\ host.plugins = <<>>
    /\ host.pluginConfigs = <<>>
    /\ ~host.initialized

\* C20: cleanup() calls the cleanup of every loaded plugin, also after one of them threw or
\* rejected, does not throw, empties the registries and resets the initialized flag, and
\* an initialize() that follows loads the plugins a first initialize() loads; on both hosts.
C20_CleanupThenReinitialize ==
    /\ lastCleanup.done => CleanedAll(lastCleanup.u, um) /\ CleanedAll(lastCleanup.r, rm)
    /\ um.initialized => um.plugins = initializeU(NewManagerU(um.pluginDefs)).plugins
    /\ rm.initialized => rm.plugins = initializeR(NewManagerR, pluginDefs, discovered).plugins

\* C22: on the cache-miss path the PRE_CONVERSION hook is executed after the introspection
\* subprocess has exited with code 0 and before the POST_CONVERSION hook.
C22_PreConversionAfterExtraction ==
    (RunEnded /\ Has(trace, "PRE_CONVERSION") /\ Has(trace, "close0")) =>
        /\ Pos(trace, "close0") < Pos(trace, "PRE_CONVERSION")
        /\ Has(trace, "POST_CONVERSION") =>
             Pos(trace, "PRE_CONVERSION") < Pos(trace, "POST_CONVERSION")

\* C25: a run writes the cache record only if it has written the output file before; a
\* failed write of the output file leaves no record that lets a later run take the
\* cache-hit path while the output file holds the old content.
C25_CacheOnlyAfterOutput ==
    /\ (pc \notin {"idle", "setup"} /\ Has(trace, "updateCache")) => Has(trace, "writeOutput")
    /\ (RunEnded /\ Has(trace, "writeOutputFail") /\ snap.out.exists) =>
           CacheChecks(env, cache, out) # "hook"

\* C26: no value a plugin's onHook returns makes the run fail or leave its path:
\* needsRegeneration does not end in its catch block because of the PRE_GENERATION answer,
\* and generateTypes does not reject because of the PRE_CONVERSION answer.
C26_AnswersCannotBreakRun ==
    /\ (pc \notin {"idle", "setup", "check"} /\ res.reason = "error") =>
           snap.cache.state = "corrupt"
    /\ (pc \notin {"idle", "setup", "check"} /\ res.err.kind = "hook") =>
           Has(trace, "openTempFail")

\* C28: when the force flag is set or a cache check requires regeneration, needsRegeneration
\* returns true whatever the plugins' PRE_GENERATION handlers return or throw (the hook is
\* not executed then).
C28_PluginsCannotSuppress ==
    (/\ pc \notin {"idle", "setup", "check"}
     /\ changedAt # runs
     /\ force \/ CacheChecks(env, snap.cache, snap.out) # "hook") =>
        res.regen /\ ~Has(trace, "PRE_GENERATION")

\* plugins are loaded, the run was started without --force, and the comparison of the
\* script's content hash made needsRegeneration return true
C28_Witness ==
    /\ pmSet /\ ~force /\ pc = "generate" /\ changedAt # runs
    /\ CacheChecks(env, snap.cache, snap.out) = "script-hash"
    /\ res.regen

\* the fingerprint needsRegeneration computes of the stub files (425-470): none (the empty
\* string here) when it finds no stub file
currentStubsHash(stubs) ==
    IF Len(StubFilesCheck(stubs)) > 0 THEN StubsHash(StubFilesCheck(stubs)) ELSE EmptyString

\* C27: for every state of the file system the stub fingerprint needsRegeneration computes
\* equals the stubFilesHash updateCache computes for that state: the record a run has just
\* written holds the fingerprint needsRegeneration computes of the unchanged stub files.
C27_SameStubFingerprint ==
    (pc \notin {"idle", "setup"} /\ changedAt # runs /\ Has(trace, "updateCache")) =>
        currentStubsHash(env.stubs) = cache.stubFilesHash

\* a <= b for versions compared by major, then minor
VersionLeq(a, b) == a[1] < b[1] \/ (a[1] = b[1] /\ a[2] <= b[2])

InRange(v) == VersionLeq(PythonMinVersion, v) /\ VersionLeq(v, PythonMaxVersion)

\* C24: findBestPythonExecutable returns the configured executable when its version is in
\* the inclusive range [min, max]; else, among the candidates whose version is in range, one
\* with the smallest distance 100*|major - preferred.major| + |minor - preferred.minor|;
\* and the configured executable when no candidate is in range.
C24_BestPythonExecutable ==
    py.result # <<>> =>
        LET cfg == py.python.cfg
            cands == py.python.cands
            r == py.result[1]
            ok == {i \in 1..Len(cands) : InRange(cands[i])}
            dist(v) == 100 * Abs(v[1] - PythonPreferredVersion[1])
                         + Abs(v[2] - PythonPreferredVersion[2])
        IN IF cfg # Null /\ InRange(cfg)
             THEN r = [executable |-> "configured", version |-> cfg]
           ELSE IF ok # {}
             THEN /\ r.executable = "discovered"
                  /\ \E i \in ok : /\ r.version = cands[i]
                                   /\ \A j \in ok : dist(cands[i]) <= dist(cands[j])
           ELSE r = [executable |-> "configured", version |-> cfg]

\* the configured executable is above the range, and the candidate chosen is the closer one
\* of two supported candidates, found second
C24_Witness ==
    /\ py.python = [cfg |-> <<3, 12>>, cands |-> << <<3, 11>>, <<3, 8>> >>]
    /\ py.result = << [executable |-> "discovered", version |-> <<3, 8>>] >>

\* the context object the driver passes to executePluginHook at each hook
GivenContext(hook) ==
    CASE hook = "PRE_GENERATION"  -> PreGenerationContext
      [] hook = "PRE_CONVERSION"  -> PreConversionContext
      [] hook = "POST_CONVERSION" -> PostConversionContext("gen")
      [] hook = "POST_GENERATION" -> PostGenerationContext(res.output)
      [] hook = "ON_ERROR"        -> ErrorContext

\* C21: within one run the context of every hook invocation holds a pluginData scratch map,
\* and an entry a plugin stored in the context at an earlier hook is present in the context
\* passed to every later hook of the run.
C21_ContextThreaded ==
    (pmSet /\ pc \notin {"idle", "setup"}) =>
        \A i \in 1..Len(trace) :
            trace[i] \in Hooks =>
                /\ GivenContext(trace[i]).pluginData
                /\ (\E j \in 1..(i - 1) : trace[j] = "entryStored") =>
                       GivenContext(trace[i]).entry

\* C23: the text written to the output file is the tsOutput of the context the
\* POST_CONVERSION hook chain returned, the empty string included.
C23_OutputIsPostConversionText ==
    (pc \notin {"idle", "setup"} /\ changedAt # runs /\ Has(trace, "writeOutput")) =>
        out.text = (IF Has(trace, "tsOutputEmpty") THEN "" ELSE "gen")

\* the enabled definitions whose module loads, by their position in priority order
LoadedPositions ==
    LET sorted == SortByPriority(um.pluginDefs)
    IN {i \in 1..Len(sorted) : sorted[i].enabled # FALSE /\ LoadsU(sorted[i])}

\* C29: for any interleaving of overlapping initialize() and executeHook() calls on one host
\* of utils/plugin-manager.ts, the module of each enabled definition is instantiated and
\* its initialize(definition) invoked exactly once.
C29_InitializedOnce ==
    pc = "async" =>
        /\ \A i \in 1..Len(tasks.inits) : tasks.inits[i] <= 1
        /\ (\A k \in 1..Len(tasks.calls) : tasks.calls[k].pc = "done") =>
               \A i \in LoadedPositions : tasks.inits[i] = 1

\* C30: when callFunction calls on one FeatureToolsBridge overlap, each returned promise
\* settles with the response to its own request and never with the response to another
\* call.
C30_OwnResponse ==
    pc = "bridge" =>
        \A k \in 1..Len(bridge.calls) :
            bridge.calls[k].settled # <<>> => bridge.calls[k].settled[1].to = k

====
